---- MODULE Spec2Model ----
(***************************************************************************)
(* OneToNDatasetAdapter (ampligraph/datasets/oneton_adapter.py).           *)
(*                                                                         *)
(* Two adapters are constructed, one with low_memory=False and one with    *)
(* low_memory=True, and the same sequence of calls is applied to both.     *)
(* adapter[lm] is the object built with low_memory=lm, gen[lm] the batch   *)
(* generator most recently obtained from its get_next_batch.               *)
(*                                                                         *)
(* A Python dict is a function whose DOMAIN is the key set; None is <<>>   *)
(* and a value v that may be None is held as <<v>>.  The field raised is   *)
(* the exception in flight during a call ("none" between calls); the       *)
(* exception that ended a generator stays in its record as error.          *)
(*                                                                         *)
(* The caller registers datasets and filters and precomputes one-hot       *)
(* outputs between iterations only; set_output_mapping and a new           *)
(* get_next_batch may also come while a generator is suspended.            *)
(*                                                                         *)
(* Spec is the training use (get_next_batch); SpecSC is the evaluation     *)
(* use, in which gen[lm] is the generator most recently obtained from      *)
(* get_next_batch_subject_corruptions.                                     *)
(***************************************************************************)
EXTENDS Integers, Sequences, FiniteSets, TLC

VARIABLES adapter, gen

vars == <<adapter, gen>>

\* ------------------------------------------------------------------ bounds
NumEnts == 2        \* size of the entity vocabulary
NumRels == 2        \* size of the relation vocabulary
MaxLen == 3         \* longest array handed to set_data / set_filter

Entities == 0 .. (NumEnts - 1)
Relations == 0 .. (NumRels - 1)

\* The name set_data is called with, and the one set_filter registers.
Train == "train"
Filter == "filter"

None == << >>
Some(v) == << v >>
NoError == "none"
\* dataset_type=None, the default of set_data
NoDatasetType == "None"

Min(a, b) == IF a < b THEN a ELSE b

\* ------------------------------------------------------------------ inputs
\* Row i of the arrays: three consecutive rows share a (subject, predicate)
\* key and their objects cycle through the entities, so arrays of different
\* lengths group differently and, with 2 entities, the third row repeats the
\* first.
PatternRow(i) ==
    << ((i - 1) \div 3) % NumEnts, ((i - 1) \div (3 * NumEnts)) % NumRels, i % NumEnts >>

PatternRows(n) == [i \in 1 .. n |-> PatternRow(i)]

\* An ndarray of shape [n, 3] holding the rows.
NdArray(rows) == [type |-> "ndarray", ncols |-> 3, rows |-> rows]

\* The valid arrays: no row, one row, MaxLen rows.
ValidArrays == {NdArray(PatternRows(n)) : n \in {0, 1, MaxLen}}

\* A Python list of triples (not an ndarray) and an ndarray with 2 columns.
MalformedArrays ==
    { [type |-> "list", ncols |-> 3, rows |-> PatternRows(1)],
      [type |-> "ndarray", ncols |-> 2, rows |-> << <<0, 0>> >>] }

Arrays == ValidArrays \cup MalformedArrays

\* A dict of named datasets, in insertion order: items[i] = <<key, array>>.
Bundle(items) == [type |-> "dict", items |-> items]

Bundles ==
    {Bundle(<< <<Train, NdArray(PatternRows(1))>>, <<Filter, b>> >>) :
        b \in {NdArray(PatternRows(0))} \cup MalformedArrays}

\* ------------------------------------------------------------------ dicts
DictGet(d, key, default) == IF key \in DOMAIN d THEN d[key] ELSE default

DictSet(d, key, v) ==
    [k \in (DOMAIN d) \cup {key} |-> IF k = key THEN v ELSE d[k]]

\* ------------------------------------------------------------------ numpy
\* np.int32(x) of an index x: kept when it fits 32 bits two's complement,
\* wrapped around once otherwise.
Int32Max == 2147483647
Int32(x) ==
    IF x > Int32Max THEN ((x - Int32Max) - 1) + ((-Int32Max) - 1)
    ELSE IF x < (-Int32Max) - 1 THEN ((x + Int32Max) + 1) + Int32Max + 1
    ELSE x

\* rows[a:b] of Python: bounds clipped to the length, empty when a >= b.
Slice(rows, a, b) == SubSeq(rows, a + 1, Min(b, Len(rows)))

\* Mutant of CeilDiv: the quotient rounded down.
CeilDiv_RoundedDown(n, k) == n \div k

\* int(np.ceil(n / k)) for n >= 0, k >= 1
CeilDiv(n, k) == (n + k - 1) \div k

\* Mutant of OnehotRow: the column set is the one after the entity's.
OnehotRow_Shifted(width, indices) ==
    [c \in 1 .. width |->
        IF \E t \in 1 .. Len(indices) : indices[t] = c - 2 THEN 1 ELSE 0]

\* One row of np.zeros(width) with row[indices] = 1.
OnehotRow(width, indices) ==
    [c \in 1 .. width |->
        IF \E t \in 1 .. Len(indices) : indices[t] = c - 1 THEN 1 ELSE 0]

\* for i, x in enumerate(rows): indices = output_dict.get((x[0], x[1]), [])
OnehotRows(rows, output_dict, width) ==
    [i \in 1 .. Len(rows) |->
        OnehotRow(width, DictGet(output_dict, <<rows[i][1], rows[i][2]>>, << >>))]

\* --------------------------------------------------- NumpyDatasetAdapter
\* to_idx of the base class: every label replaced by its index.
to_idx(rows, ent_to_idx, rel_to_idx) ==
    [i \in 1 .. Len(rows) |->
        << ent_to_idx[rows[i][1]], rel_to_idx[rows[i][2]], ent_to_idx[rows[i][3]] >>]

\* map_data of the base class: index every dataset not yet mapped.
map_data(self) ==
    [self EXCEPT
        !.dataset = [k \in DOMAIN self.dataset |->
                        IF self.mapped_status[k]
                        THEN self.dataset[k]
                        ELSE to_idx(self.dataset[k], self.ent_to_idx, self.rel_to_idx)],
        !.mapped_status = [k \in DOMAIN self.dataset |-> TRUE]]

\* get_size of the base class: self.dataset[dataset_type].shape[0]
get_size(self, dataset_type) == Len(self.dataset[dataset_type])

\* ------------------------------------------------------------- the adapter
\* __init__, followed by use_mappings with the vocabularies of the run (the
\* labels of the arrays are the indices themselves).
NewAdapter(low_memory) ==
    [ dataset |-> << >>,
      mapped_status |-> << >>,
      ent_to_idx |-> [e \in Entities |-> e],
      rel_to_idx |-> [r \in Relations |-> r],
      filter_mapping |-> None,
      filtered_status |-> << >>,
      output_mapping |-> None,
      output_onehot |-> << >>,
      low_memory |-> low_memory,
      raised |-> NoError ]

Raise(self, what) == [self EXCEPT !.raised = what]

\* _validate_data: the exception it raises, NoError when it returns.
validate_data(data) ==
    IF data.type # "ndarray" THEN "ValueError: invalid type"
    ELSE IF data.ncols # 3 THEN "ValueError: invalid size"
    ELSE NoError

\* self.dataset[key] = data; self.mapped_status[key] = mapped_status
StoreData(self, key, data, mapped_status) ==
    [self EXCEPT !.dataset = DictSet(@, key, data.rows),
                 !.mapped_status = DictSet(@, key, mapped_status)]

\* The loop of set_data over the items of a dict, from item i on.
RECURSIVE set_data_items(_, _, _, _)
set_data_items(self, items, i, mapped_status) ==
    IF i > Len(items) THEN self
    ELSE LET key == items[i][1]
             data == items[i][2]
             err == validate_data(data)
         IN  IF err # NoError THEN Raise(self, err)
             ELSE set_data_items(StoreData(self, key, data, mapped_status),
                                 items, i + 1, mapped_status)

set_data(self, dataset, dataset_type, mapped_status) ==
    LET stored ==
            IF dataset.type = "dict"
            THEN set_data_items(self, dataset.items, 1, mapped_status)
            ELSE IF dataset_type # NoDatasetType
            THEN LET err == validate_data(dataset)
                 IN  IF err # NoError THEN Raise(self, err)
                     ELSE StoreData(self, dataset_type, dataset, mapped_status)
            ELSE Raise(self, "Exception: incorrect usage")
    IN  IF stored.raised # NoError THEN stored
        ELSE IF ~(Cardinality(DOMAIN self.rel_to_idx) = 0
                    \/ Cardinality(DOMAIN self.ent_to_idx) = 0)
        THEN map_data(stored)
        ELSE stored

\* Mutant of GroupObjects: an object already listed under its key is not
\* appended again.
RECURSIVE GroupObjects_Deduplicated(_, _, _)
GroupObjects_Deduplicated(rows, i, output_mapping) ==
    IF i > Len(rows) THEN output_mapping
    ELSE LET key == <<rows[i][1], rows[i][2]>>
             objects == DictGet(output_mapping, key, << >>)
         IN  GroupObjects_Deduplicated(rows, i + 1,
                DictSet(output_mapping, key,
                        IF \E t \in 1 .. Len(objects) : objects[t] = rows[i][3]
                        THEN objects ELSE Append(objects, rows[i][3])))

\* for s, p, o in rows[i..]: output_mapping.setdefault((s, p), []).append(o)
RECURSIVE GroupObjects(_, _, _)
GroupObjects(rows, i, output_mapping) ==
    IF i > Len(rows) THEN output_mapping
    ELSE LET key == <<rows[i][1], rows[i][2]>>
         IN  GroupObjects(rows, i + 1,
                DictSet(output_mapping, key,
                        Append(DictGet(output_mapping, key, << >>), rows[i][3])))

\* generate_output_mapping: the adapter after the call (map_data may have
\* run) and the dict returned.
generate_output_mapping(self, dataset_type) ==
    IF dataset_type \notin DOMAIN self.mapped_status
    THEN [self |-> Raise(self, "KeyError"), ret |-> None]
    ELSE LET mapped == IF ~self.mapped_status[dataset_type]
                       THEN map_data(self) ELSE self
         IN  [self |-> mapped,
              ret |-> GroupObjects(mapped.dataset[dataset_type], 1, << >>)]

\* Mutant of set_filter: the mapping generated from the filter is stored as
\* the output mapping too.
set_filter_AlsoOutputMapping(self, filter_triples, mapped_status) ==
    LET stored == set_data(self, filter_triples, Filter, mapped_status)
    IN  IF stored.raised # NoError THEN stored
        ELSE LET r == generate_output_mapping(stored, Filter)
             IN  IF r.self.raised # NoError THEN r.self
                 ELSE [r.self EXCEPT !.filter_mapping = Some(r.ret),
                                     !.output_mapping = Some(r.ret)]

set_filter(self, filter_triples, mapped_status) ==
    LET stored == set_data(self, filter_triples, Filter, mapped_status)
    IN  IF stored.raised # NoError THEN stored
        ELSE LET r == generate_output_mapping(stored, Filter)
             IN  IF r.self.raised # NoError THEN r.self
                 ELSE [r.self EXCEPT !.filter_mapping = Some(r.ret)]

\* Mutant of generate_onehot_outputs: the outputs are built and tagged
\* whatever low_memory is.
generate_onehot_outputs_AlwaysCaches(self, dataset_type, use_filter) ==
    IF dataset_type \notin DOMAIN self.dataset
    THEN Raise(self, "ValueError: dataset not found")
    ELSE IF use_filter /\ self.filter_mapping = None
    THEN Raise(self, "ValueError: filter not found")
    ELSE IF ~use_filter /\ self.output_mapping = None
    THEN Raise(self, "ValueError: output mapping not created")
    ELSE LET output_dict == IF use_filter THEN self.filter_mapping[1]
                            ELSE self.output_mapping[1]
         IN  [self EXCEPT
                 !.output_onehot =
                     DictSet(@, dataset_type,
                             OnehotRows(self.dataset[dataset_type], output_dict,
                                        Cardinality(DOMAIN self.ent_to_idx))),
                 !.filtered_status = DictSet(@, dataset_type, use_filter)]

generate_onehot_outputs(self, dataset_type, use_filter) ==
    IF dataset_type \notin DOMAIN self.dataset
    THEN Raise(self, "ValueError: dataset not found")
    ELSE IF use_filter /\ self.filter_mapping = None
    THEN Raise(self, "ValueError: filter not found")
    ELSE IF ~use_filter /\ self.output_mapping = None
    THEN Raise(self, "ValueError: output mapping not created")
    ELSE LET output_dict == IF use_filter THEN self.filter_mapping[1]
                            ELSE self.output_mapping[1]
         IN  IF ~self.low_memory
             THEN [self EXCEPT
                      !.output_onehot =
                          DictSet(@, dataset_type,
                                  OnehotRows(self.dataset[dataset_type], output_dict,
                                             Cardinality(DOMAIN self.ent_to_idx))),
                      !.filtered_status = DictSet(@, dataset_type, use_filter)]
             ELSE self

\* Mutant of set_output_mapping: the one-hot outputs are not cleared.
set_output_mapping_KeepsOnehot(self, output_dict) ==
    [self EXCEPT !.output_mapping = output_dict]

set_output_mapping(self, output_dict) ==
    [self EXCEPT !.output_mapping = output_dict,
                 !.output_onehot = << >>]

\* ---------------------------------------------------------- get_next_batch
\* The frame of a get_next_batch generator: its arguments and locals.  state
\* is "created" (body not entered), "running" (suspended at a yield, out is
\* the pair yielded), "done" (returned) or "raised" (left by the exception
\* error); a finished generator keeps no frame.
Frame(state, batches_count, dataset_type, use_filter, batch_size, i, output_dict, out) ==
    [ state |-> state, batches_count |-> batches_count,
      dataset_type |-> dataset_type, use_filter |-> use_filter,
      batch_size |-> batch_size, i |-> i, output_dict |-> output_dict, out |-> out,
      error |-> NoError ]

Finished(state, error) ==
    [Frame(state, 0, NoDatasetType, FALSE, 0, 0, None, << >>) EXCEPT !.error = error]

NoGenerator == Finished("none", NoError)

Active(g) == g.state \in {"created", "running"}

\* Calling get_next_batch runs no code of the body: it returns the generator.
get_next_batch(batches_count, dataset_type, use_filter) ==
    Frame("created", batches_count, dataset_type, use_filter, 0, 0, None, << >>)

Thrown(self, what) == [self |-> Raise(self, what), gen |-> Finished("raised", what)]

\* np.int32(self.dataset[dataset_type][(i * batch_size):((i + 1) * batch_size), :])
BatchTriples(self, g) ==
    LET rows == Slice(self.dataset[g.dataset_type],
                      g.i * g.batch_size, (g.i + 1) * g.batch_size)
    IN  [r \in 1 .. Len(rows) |-> << Int32(rows[r][1]), Int32(rows[r][2]), Int32(rows[r][3]) >>]

Yield(self, g, out, out_onehot) ==
    [self |-> self,
     gen |-> [g EXCEPT !.state = "running", !.i = g.i + 1, !.out = <<out, out_onehot>>]]

\* One turn of `for i in range(batches_count)`, up to the yield.
gnb_loop(self, g) ==
    IF g.i >= g.batches_count
    THEN [self |-> self, gen |-> Finished("done", NoError)]
    ELSE LET out == BatchTriples(self, g)
         IN  IF ~self.low_memory
             THEN IF g.dataset_type \notin DOMAIN self.output_onehot
                  THEN Thrown(self, "KeyError")
                  ELSE Yield(self, g, out,
                             Slice(self.output_onehot[g.dataset_type],
                                   g.i * g.batch_size, (g.i + 1) * g.batch_size))
             ELSE IF Len(out) = 0
                  THEN Yield(self, g, out, << >>)
                  ELSE IF g.output_dict = None
                  THEN Thrown(self, "AttributeError")
                  ELSE Yield(self, g, out,
                             OnehotRows(out, g.output_dict[1],
                                        Cardinality(DOMAIN self.ent_to_idx)))

\* Mutant of filter_missing: the check is skipped.
filter_missing_Skipped(self, use_filter) == FALSE

\* if use_filter and self.filter_mapping is None
filter_missing(self, use_filter) == use_filter /\ self.filter_mapping = None

\* The body of get_next_batch before its loop.
gnb_begin(self, g) ==
    IF g.dataset_type \notin DOMAIN self.mapped_status
    THEN Thrown(self, "KeyError")
    ELSE
    LET d == g.dataset_type
        mapped == IF ~self.mapped_status[d] THEN map_data(self) ELSE self
        batch_size == IF g.batches_count = -1 THEN 1
                      ELSE CeilDiv(get_size(mapped, d), g.batches_count)
        batches_count == IF g.batches_count = -1 THEN get_size(mapped, d)
                         ELSE g.batches_count
        sized == [g EXCEPT !.batch_size = batch_size, !.batches_count = batches_count]
    IN  IF filter_missing(mapped, g.use_filter)
        THEN Thrown(mapped, "ValueError: filter not set")
        ELSE IF ~mapped.low_memory
        THEN LET cached ==
                    IF d \notin DOMAIN mapped.output_onehot
                        \/ (g.use_filter /\ ~mapped.filtered_status[d])
                    THEN generate_onehot_outputs(mapped, d, g.use_filter)
                    ELSE mapped
             IN  IF cached.raised # NoError
                 THEN Thrown(cached, cached.raised)
                 ELSE [self |-> cached, gen |-> sized]
        ELSE [self |-> mapped,
              gen |-> [sized EXCEPT !.output_dict =
                          IF g.use_filter THEN mapped.filter_mapping
                          ELSE mapped.output_mapping]]

\* next(generator): run the body up to its next yield, its return or an
\* exception.  A finished generator only raises StopIteration.
next_batch(self, g) ==
    IF g.state = "created"
    THEN LET r == gnb_begin(self, g)
         IN  IF r.gen.state = "raised" THEN r ELSE gnb_loop(r.self, r.gen)
    ELSE IF g.state = "running"
    THEN gnb_loop(self, g)
    ELSE [self |-> self, gen |-> g]

\* list(generator): every pair yielded until the generator finishes.
RECURSIVE Drain(_, _, _)
Drain(self, g, yielded) ==
    IF ~Active(g) THEN [self |-> self, gen |-> g, yielded |-> yielded]
    ELSE LET r == next_batch(self, g)
         IN  Drain(r.self, r.gen,
                   IF r.gen.state = "running" THEN Append(yielded, r.gen.out)
                   ELSE yielded)

\* list(self.get_next_batch(batches_count, dataset_type, use_filter))
FullRun(self, batches_count, dataset_type, use_filter) ==
    Drain(self, get_next_batch(batches_count, dataset_type, use_filter), << >>)

\* ------------------------------------- get_next_batch_subject_corruptions
\* list(d.values()) of a vocabulary: the indices in insertion order, which is
\* index order.
DictValues(d) == [i \in 1 .. Cardinality(DOMAIN d) |-> d[i - 1]]

\* The frame of a get_next_batch_subject_corruptions generator.  rel_pos is
\* the position of `for rel in rel_list` (1 for the first relation), ent_idx
\* the cursor of the while loop, out the triple yielded last.
ScFrame(state, batch_size, dataset_type, use_filter) ==
    [ kind |-> "subject_corruptions", state |-> state,
      batch_size |-> batch_size, dataset_type |-> dataset_type,
      use_filter |-> use_filter, output_dict |-> None,
      ent_list |-> << >>, rel_list |-> << >>,
      rel_pos |-> 0, test_triples |-> << >>, ent_idx |-> 0,
      out |-> << >>, error |-> NoError ]

ScFinished(state, error) ==
    [ScFrame(state, 0, NoDatasetType, FALSE) EXCEPT !.error = error]

ScThrown(self, what) ==
    [self |-> Raise(self, what), gen |-> ScFinished("raised", what)]

\* Calling the generator function runs no code of the body.
get_next_batch_subject_corruptions(batch_size, dataset_type, use_filter) ==
    ScFrame("created", batch_size, dataset_type, use_filter)

\* Mutant of SubjectChunk: the slice ends one entity early.
SubjectChunk_OneShort(ent_list, ent_idx, batch_size) ==
    Slice(ent_list, ent_idx, ent_idx + batch_size - 1)

\* ents = ent_list[ent_idx:ent_idx+batch_size]
SubjectChunk(ent_list, ent_idx, batch_size) ==
    Slice(ent_list, ent_idx, ent_idx + batch_size)

\* self.dataset[dataset_type][self.dataset[dataset_type][:, 1] == rel]
TestTriples(rows, rel) ==
    LET HasRel(row) == row[2] = rel
    IN  SelectSeq(rows, HasRel)

\* The loops of the body: sc_for is the head of `for rel in rel_list` with
\* rel_pos the relation to enter, sc_while the head of the while loop.
RECURSIVE sc_for(_, _)
RECURSIVE sc_while(_, _)
sc_for(self, g) ==
    IF g.rel_pos > Len(g.rel_list)
    THEN [self |-> self, gen |-> ScFinished("done", NoError)]
    ELSE IF g.dataset_type \notin DOMAIN self.dataset
    THEN ScThrown(self, "KeyError")
    ELSE sc_while(self,
            [g EXCEPT !.test_triples = TestTriples(self.dataset[g.dataset_type],
                                                   g.rel_list[g.rel_pos]),
                      !.ent_idx = 0])

sc_while(self, g) ==
    IF ~(g.ent_idx < Len(g.ent_list))
    THEN sc_for(self, [g EXCEPT !.rel_pos = g.rel_pos + 1])
    ELSE LET rel == g.rel_list[g.rel_pos]
             ents == SubjectChunk(g.ent_list, g.ent_idx, g.batch_size)
             out == [j \in 1 .. Len(ents) |-> <<ents[j], rel, 0>>]
         IN  IF Len(out) > 0 /\ g.output_dict = None
             THEN ScThrown(self, "AttributeError")
             ELSE [self |-> self,
                   gen |-> [g EXCEPT
                      !.state = "running",
                      !.ent_idx = g.ent_idx + g.batch_size,
                      !.out = << g.test_triples, out,
                                 IF Len(out) = 0 THEN << >>
                                 ELSE OnehotRows(out, g.output_dict[1],
                                                 Len(g.ent_list)) >>]]

\* The body before its loops.
sc_begin(self, g) ==
    IF g.batch_size = -1 /\ g.dataset_type \notin DOMAIN self.dataset
    THEN ScThrown(self, "KeyError")
    ELSE [self |-> self,
          gen |-> [g EXCEPT
             !.output_dict = IF g.use_filter THEN self.filter_mapping
                             ELSE self.output_mapping,
             !.batch_size = IF g.batch_size = -1
                            THEN get_size(self, g.dataset_type)
                            ELSE g.batch_size,
             !.ent_list = DictValues(self.ent_to_idx),
             !.rel_list = DictValues(self.rel_to_idx),
             !.rel_pos = 1]]

\* next(generator) of a subject-corruption generator.
next_chunk(self, g) ==
    IF g.state = "created"
    THEN LET r == sc_begin(self, g)
         IN  IF r.gen.state = "raised" THEN r ELSE sc_for(r.self, r.gen)
    ELSE IF g.state = "running"
    THEN sc_while(self, g)
    ELSE [self |-> self, gen |-> g]

\* The chunks yielded by at most `pulls` calls of next(generator), and the
\* generator they leave.
RECURSIVE ScDrain(_, _, _, _)
ScDrain(self, g, yielded, pulls) ==
    IF ~Active(g) \/ pulls = 0 THEN [self |-> self, gen |-> g, yielded |-> yielded]
    ELSE LET r == next_chunk(self, g)
         IN  ScDrain(r.self, r.gen,
                     IF r.gen.state = "running" THEN Append(yielded, r.gen.out)
                     ELSE yielded,
                     pulls - 1)

\* ------------------------------------------------------------- the calls
\* The adapter a call leaves behind: its exception has gone to the caller.
Return(self) == [self EXCEPT !.raised = NoError]

\* batches_count: -1 (one triple per batch) or a count >= 1, also beyond the
\* size (a count of 0 only divides by zero at line 156).
BatchCounts == {-1} \cup (1 .. (MaxLen + 1))

\* The output mappings handed to set_output_mapping: the grouping of each
\* valid array.
OutputDicts == {GroupObjects(a.rows, 1, << >>) : a \in ValidArrays}

Idle == \A lm \in BOOLEAN : ~Active(gen[lm])

Init ==
    /\ adapter = [lm \in BOOLEAN |-> NewAdapter(lm)]
    /\ gen = [lm \in BOOLEAN |-> NoGenerator]

SetData(dataset, dataset_type, mapped_status) ==
    /\ Idle
    /\ adapter' = [lm \in BOOLEAN |->
                      Return(set_data(adapter[lm], dataset, dataset_type, mapped_status))]
    /\ UNCHANGED gen

SetFilter(filter_triples, mapped_status) ==
    /\ Idle
    /\ adapter' = [lm \in BOOLEAN |->
                      Return(set_filter(adapter[lm], filter_triples, mapped_status))]
    /\ UNCHANGED gen

SetOutputMapping(output_dict) ==
    /\ adapter' = [lm \in BOOLEAN |->
                      Return(set_output_mapping(adapter[lm], Some(output_dict)))]
    /\ UNCHANGED gen

GenerateOnehotOutputs(dataset_type, use_filter) ==
    /\ Idle
    /\ adapter' = [lm \in BOOLEAN |->
                      Return(generate_onehot_outputs(adapter[lm], dataset_type, use_filter))]
    /\ UNCHANGED gen

GetNextBatch(batches_count, dataset_type, use_filter) ==
    /\ gen' = [lm \in BOOLEAN |-> get_next_batch(batches_count, dataset_type, use_filter)]
    /\ UNCHANGED adapter

NextBatch ==
    /\ ~Idle
    /\ adapter' = [lm \in BOOLEAN |-> Return(next_batch(adapter[lm], gen[lm]).self)]
    /\ gen' = [lm \in BOOLEAN |-> next_batch(adapter[lm], gen[lm]).gen]

Next ==
    \/ \E a \in Arrays, m \in BOOLEAN : SetData(a, Train, m)
    \/ \E a \in Bundles \cup {NdArray(PatternRows(1))}, m \in BOOLEAN :
          SetData(a, NoDatasetType, m)
    \/ \E a \in Arrays : SetFilter(a, FALSE)
    \/ \E o \in OutputDicts : SetOutputMapping(o)
    \/ \E u \in BOOLEAN : GenerateOnehotOutputs(Train, u)
    \/ \E k \in BatchCounts, u \in BOOLEAN : GetNextBatch(k, Train, u)
    \/ NextBatch

Spec == Init /\ [][Next]_vars

\* --------------------------------------- the subject-corruption evaluation
\* batch_size: -1 (unspecified) or a size >= 1, also beyond the vocabulary.
ChunkSizes == {-1} \cup (1 .. (NumEnts + 1))

GetNextBatchSubjectCorruptions(batch_size, dataset_type, use_filter) ==
    /\ gen' = [lm \in BOOLEAN |->
                  get_next_batch_subject_corruptions(batch_size, dataset_type, use_filter)]
    /\ UNCHANGED adapter

NextChunk ==
    /\ ~Idle
    /\ adapter' = [lm \in BOOLEAN |-> Return(next_chunk(adapter[lm], gen[lm]).self)]
    /\ gen' = [lm \in BOOLEAN |-> next_chunk(adapter[lm], gen[lm]).gen]

\* An evaluation run: datasets, filter and output mapping are set, then the
\* subject-corruption generator is iterated.
NextSC ==
    \/ \E a \in ValidArrays, m \in BOOLEAN : SetData(a, Train, m)
    \/ \E a \in ValidArrays : SetFilter(a, FALSE)
    \/ \E o \in OutputDicts : SetOutputMapping(o)
    \/ \E b \in ChunkSizes, u \in BOOLEAN : GetNextBatchSubjectCorruptions(b, Train, u)
    \/ NextChunk

SpecSC == Init /\ [][NextSC]_vars

\* ------------------------------------------------------------- claims
Eager == adapter[FALSE]
LowMemory == adapter[TRUE]

Width(self) == Cardinality(DOMAIN self.ent_to_idx)

\* The mapping use_filter selects (None when it was never set).
Selected(self, use_filter) ==
    IF use_filter THEN self.filter_mapping ELSE self.output_mapping

\* pair = <<triples_batch, onehot_batch>>: every one-hot row is the encoding
\* of its triple under output_dict.
EncodedUnder(pair, output_dict, width) ==
    pair[2] = OnehotRows(pair[1], output_dict, width)

Registered(self, d) == d \in DOMAIN self.dataset

\* C1: the generators of the eager and of the low-memory adapter, driven by
\* the same calls, yield at the same pulls, and the pairs they yield are equal.
C1_SameBatches ==
    /\ (gen[FALSE].state = "running") = (gen[TRUE].state = "running")
    /\ gen[FALSE].out = gen[TRUE].out

\* C2: when the first pull of an eager generator for d finds a cache for d
\* whose filter tag differs from use_filter and a batch is yielded, the cache
\* has been rebuilt under the mapping use_filter selects, is tagged with
\* use_filter, and the batch yielded is encoded under that mapping.
C2_MismatchRebuilds ==
    [][ LET g == gen[FALSE]
            d == g.dataset_type
            u == g.use_filter
        IN  ( /\ g.state = "created"
              /\ d \in DOMAIN Eager.output_onehot
              /\ Eager.filtered_status[d] # u
              /\ gen'[FALSE].state = "running"
              /\ NextBatch )
            => /\ Selected(adapter'[FALSE], u) # None
               /\ adapter'[FALSE].filtered_status[d] = u
               /\ adapter'[FALSE].output_onehot[d] =
                      OnehotRows(adapter'[FALSE].dataset[d],
                                 Selected(adapter'[FALSE], u)[1], Width(Eager))
               /\ EncodedUnder(gen'[FALSE].out, Selected(adapter'[FALSE], u)[1],
                               Width(Eager))
      ]_vars

\* C3: set_output_mapping(m) leaves the one-hot cache without any entry, and
\* for every dataset d cached before the call a get_next_batch(d,
\* use_filter=False) issued next on the eager adapter runs to its end, leaves
\* the cache of d equal to the encoding of d under m, and yields only rows
\* that are the encoding of their triple under m.
C3_MappingResetsCache ==
    [][ \A m \in OutputDicts :
          (gen' = gen /\ adapter'[FALSE].output_mapping = Some(m) /\ SetOutputMapping(m)) =>
            /\ \A lm \in BOOLEAN : DOMAIN adapter'[lm].output_onehot = {}
            /\ \A d \in DOMAIN Eager.output_onehot, k \in BatchCounts :
                  \A r \in {FullRun(adapter'[FALSE], k, d, FALSE)} :
                      /\ r.gen.state = "done"
                      /\ r.self.output_onehot[d] =
                            OnehotRows(r.self.dataset[d], m, Width(Eager))
                      /\ \A j \in 1 .. Len(r.yielded) :
                            EncodedUnder(r.yielded[j], m, Width(Eager))
      ]_vars

\* C3 witness: a non-empty dataset that was cached without the filter has
\* lost its cache entry to set_output_mapping, and get_next_batch(train,
\* use_filter=False) has been called on the eager adapter.
C3_Witness ==
    /\ Train \in DOMAIN Eager.filtered_status
    /\ ~Eager.filtered_status[Train]
    /\ Train \notin DOMAIN Eager.output_onehot
    /\ Eager.output_mapping # None
    /\ Len(Eager.dataset[Train]) = MaxLen
    /\ gen[FALSE].state = "created"
    /\ gen[FALSE].dataset_type = Train
    /\ ~gen[FALSE].use_filter

\* C4: when the eager cache of train was built with the filter F1 and
\* set_filter installs another filter mapping F2, a get_next_batch(train,
\* use_filter=True) issued next yields only rows encoded under F2.
C4_NewFilterInvalidates ==
    [][ \A a \in Arrays :
          ( /\ SetFilter(a, FALSE)
            /\ Train \in DOMAIN Eager.output_onehot
            /\ Eager.filtered_status[Train]
            /\ Eager.filter_mapping # None
            /\ Eager.output_onehot[Train] =
                  OnehotRows(Eager.dataset[Train], Eager.filter_mapping[1], Width(Eager))
            /\ adapter'[FALSE].filter_mapping # Eager.filter_mapping )
          => \A k \in BatchCounts :
                \A r \in {FullRun(adapter'[FALSE], k, Train, TRUE)} :
                    \A j \in 1 .. Len(r.yielded) :
                       EncodedUnder(r.yielded[j], adapter'[FALSE].filter_mapping[1],
                                    Width(Eager))
      ]_vars

\* The sizes of the triples batches of a full iteration.
BatchSizes(yielded) == [j \in 1 .. Len(yielded) |-> Len(yielded[j][1])]

\* The triples batches of a full iteration, concatenated in yield order.
RECURSIVE ConcatTriples(_, _)
ConcatTriples(yielded, j) ==
    IF j > Len(yielded) THEN << >>
    ELSE yielded[j][1] \o ConcatTriples(yielded, j + 1)

\* C5: for k > 1 and a dataset of n >= 1 triples, every batch of a full
\* iteration but the last holds exactly ceil(n/k) triples.
C5_BatchSizes ==
    \A lm \in BOOLEAN, k \in BatchCounts, u \in BOOLEAN :
       ( /\ k > 1
         /\ Registered(adapter[lm], Train)
         /\ Len(adapter[lm].dataset[Train]) >= 1 )
       => \A r \in {FullRun(adapter[lm], k, Train, u)} :
              r.gen.state = "done" =>
                 \A j \in 1 .. (Len(r.yielded) - 1) :
                    BatchSizes(r.yielded)[j] =
                        CeilDiv(Len(adapter[lm].dataset[Train]), k)

\* C6: in both memory modes, for k = -1 or k >= 1, the triples batches of a
\* full iteration concatenate, in yield order, to the dataset.
C6_BatchesCoverDataset ==
    \A lm \in BOOLEAN, k \in BatchCounts, u \in BOOLEAN :
       Registered(adapter[lm], Train) =>
          \A r \in {FullRun(adapter[lm], k, Train, u)} :
              r.gen.state = "done" =>
                 ConcatTriples(r.yielded, 1) = r.self.dataset[Train]

\* C6 witness: a dataset of MaxLen triples that both adapters iterate to the
\* end in 2 batches and in MaxLen + 1 batches.
C6_Witness ==
    \A lm \in BOOLEAN :
       /\ Registered(adapter[lm], Train)
       /\ Len(adapter[lm].dataset[Train]) = MaxLen
       /\ \A k \in {2, MaxLen + 1} :
             \A r \in {FullRun(adapter[lm], k, Train, FALSE)} :
                 r.gen.state = "done" /\ Len(r.yielded) = k

\* C7: in both memory modes a full iteration with batches_count = -1 yields
\* as many batches as the dataset has triples, each of 1 triple and 1
\* one-hot row.
C7_OneTriplePerBatch ==
    \A lm \in BOOLEAN, u \in BOOLEAN :
       Registered(adapter[lm], Train) =>
          \A r \in {FullRun(adapter[lm], -1, Train, u)} :
              r.gen.state = "done" =>
                 /\ Len(r.yielded) = Len(r.self.dataset[Train])
                 /\ \A j \in 1 .. Len(r.yielded) :
                       Len(r.yielded[j][1]) = 1 /\ Len(r.yielded[j][2]) = 1

MalformedErrors == {"ValueError: invalid type", "ValueError: invalid size"}

\* C8: a set_data (of one array with its type, or of a dict of arrays) or a
\* set_filter that fails with a malformed-input error leaves the adapter as
\* it was before the call.
C8_NoPartialMutation ==
    [][ \A lm \in BOOLEAN :
          /\ \A a \in Arrays \cup Bundles, d \in {Train, NoDatasetType}, m \in BOOLEAN :
                ( /\ set_data(adapter[lm], a, d, m).raised \in MalformedErrors
                  /\ SetData(a, d, m) )
                => adapter'[lm] = adapter[lm]
          /\ \A a \in Arrays :
                ( /\ set_filter(adapter[lm], a, FALSE).raised \in MalformedErrors
                  /\ SetFilter(a, FALSE) )
                => adapter'[lm] = adapter[lm]
      ]_vars

\* The generator of adapter lm takes its first pull in this step.
FirstPull(lm) == gen[lm].state = "created" /\ NextBatch

\* C9 as claimed: in both memory modes the first pull of a
\* get_next_batch(use_filter=True) generator, taken while no filter has been
\* registered, raises the missing-filter error.
C9_MissingFilter ==
    [][ \A lm \in BOOLEAN :
          ( /\ gen[lm].use_filter
            /\ adapter[lm].filter_mapping = None
            /\ FirstPull(lm) )
          => /\ gen'[lm].state = "raised"
             /\ gen'[lm].error = "ValueError: filter not set"
      ]_vars

\* C9 amended: the same for a generator over a registered dataset.
C9_MissingFilterRegistered ==
    [][ \A lm \in BOOLEAN :
          ( /\ gen[lm].use_filter
            /\ adapter[lm].filter_mapping = None
            /\ Registered(adapter[lm], gen[lm].dataset_type)
            /\ FirstPull(lm) )
          => /\ gen'[lm].state = "raised"
             /\ gen'[lm].error = "ValueError: filter not set"
      ]_vars

\* C9 witness: both generators over a registered, non-empty dataset have been
\* ended by the missing-filter error while no filter is registered.
C9_Witness ==
    \A lm \in BOOLEAN :
       /\ gen[lm].state = "raised"
       /\ gen[lm].error = "ValueError: filter not set"
       /\ adapter[lm].filter_mapping = None
       /\ Registered(adapter[lm], Train)
       /\ Len(adapter[lm].dataset[Train]) >= 1

\* C10: in both memory modes the first pull of a get_next_batch(d,
\* use_filter=False) generator over a non-empty dataset d, taken while no
\* output mapping has been set, raises the missing-output-mapping error.
C10_MissingOutputMapping ==
    [][ \A lm \in BOOLEAN :
          ( /\ ~gen[lm].use_filter
            /\ adapter[lm].output_mapping = None
            /\ Registered(adapter[lm], gen[lm].dataset_type)
            /\ Len(adapter[lm].dataset[gen[lm].dataset_type]) >= 1
            /\ FirstPull(lm) )
          => /\ gen'[lm].state = "raised"
             /\ gen'[lm].error = "ValueError: output mapping not created"
      ]_vars

\* C11: every set_filter step, whatever the array and whether it succeeds,
\* leaves output_mapping of both adapters as it was, and every
\* set_output_mapping step leaves filter_mapping of both adapters as it was.
C11_IndependentMappings ==
    [][ /\ \A a \in Arrays :
              (gen' = gen /\ SetFilter(a, FALSE)) =>
                 \A lm \in BOOLEAN :
                    adapter'[lm].output_mapping = adapter[lm].output_mapping
        /\ \A m \in OutputDicts :
              (gen' = gen /\ adapter'[FALSE].output_mapping = Some(m)
                    /\ SetOutputMapping(m)) =>
                 \A lm \in BOOLEAN :
                    adapter'[lm].filter_mapping = adapter[lm].filter_mapping
      ]_vars

\* C11 witness: both calls have acted on both adapters and left two
\* different mappings, neither of them empty.
C11_Witness ==
    \A lm \in BOOLEAN :
       /\ adapter[lm].filter_mapping # None
       /\ adapter[lm].output_mapping # None
       /\ adapter[lm].filter_mapping # adapter[lm].output_mapping
       /\ DOMAIN adapter[lm].filter_mapping[1] # {}
       /\ DOMAIN adapter[lm].output_mapping[1] # {}

\* The (subject, predicate) pairs of the rows.
KeysOf(rows) == {<<rows[i][1], rows[i][2]>> : i \in 1 .. Len(rows)}

\* The objects of the rows with this (subject, predicate), in row order.
ObjectsOf(rows, key) ==
    LET HasKey(row) == <<row[1], row[2]>> = key
        selected == SelectSeq(rows, HasKey)
    IN  [i \in 1 .. Len(selected) |-> selected[i][3]]

\* C12: for every registered dataset d of either adapter,
\* generate_output_mapping(d) returns a mapping whose keys are exactly the
\* (subject, predicate) pairs of the rows of d and whose value at a key is the
\* list of the objects of the rows with that key, in row order, a repeated
\* triple contributing its object once per occurrence.
C12_OutputMapping ==
    \A lm \in BOOLEAN :
       \A d \in DOMAIN adapter[lm].dataset :
          \A r \in {generate_output_mapping(adapter[lm], d)} :
             /\ r.self.raised = NoError
             /\ DOMAIN r.ret = KeysOf(r.self.dataset[d])
             /\ \A key \in DOMAIN r.ret :
                   r.ret[key] = ObjectsOf(r.self.dataset[d], key)

\* C12 witness: set_filter has stored the mapping generate_output_mapping
\* returns for a filter in which one triple occurs twice, with another object
\* of the same key between the two occurrences.
C12_Witness ==
    \A lm \in BOOLEAN :
       /\ Registered(adapter[lm], Filter)
       /\ adapter[lm].filter_mapping =
             Some(generate_output_mapping(adapter[lm], Filter).ret)
       /\ \E key \in DOMAIN adapter[lm].filter_mapping[1] :
             \A objects \in {adapter[lm].filter_mapping[1][key]} :
                /\ Len(objects) = 3
                /\ objects[1] = objects[3]
                /\ objects[1] # objects[2]

\* C13: a generate_onehot_outputs(train, use_filter) step that succeeds on
\* the eager adapter leaves a cache entry for train with one row per triple
\* and one column per entity, in which row i holds 1 in the column of entity
\* e exactly when e is listed under the (subject, predicate) of triple i in
\* the mapping use_filter selects (no 1 when the key is absent) and 0
\* elsewhere, and leaves the filter tag of train equal to use_filter.
C13_OnehotEncoding ==
    [][ \A u \in BOOLEAN :
          ( /\ gen' = gen
            /\ generate_onehot_outputs(Eager, Train, u).raised = NoError
            /\ GenerateOnehotOutputs(Train, u) )
          => \A rows \in {Eager.dataset[Train]}, m \in {Selected(Eager, u)[1]} :
                \A cache \in {adapter'[FALSE].output_onehot[Train]} :
                   /\ adapter'[FALSE].filtered_status[Train] = u
                   /\ Len(cache) = Len(rows)
                   /\ \A i \in 1 .. Len(rows) :
                         /\ Len(cache[i]) = Cardinality(Entities)
                         /\ \A e \in Entities :
                               /\ cache[i][e + 1] \in {0, 1}
                               /\ cache[i][e + 1] = 1 <=>
                                     /\ <<rows[i][1], rows[i][2]>> \in DOMAIN m
                                     /\ \E t \in 1 .. Len(m[<<rows[i][1], rows[i][2]>>]) :
                                           m[<<rows[i][1], rows[i][2]>>][t] = e
      ]_vars

\* C13 witness: before any generator was created, generate_onehot_outputs
\* has cached a dataset of MaxLen triples under the filter, with a row that
\* holds both a 1 and a 0.
C13_Witness ==
    /\ gen[FALSE].state = "none"
    /\ Train \in DOMAIN Eager.output_onehot
    /\ Eager.filtered_status[Train]
    /\ Len(Eager.dataset[Train]) = MaxLen
    /\ \E i \in 1 .. MaxLen, e1, e2 \in Entities :
          /\ Eager.output_onehot[Train][i][e1 + 1] = 1
          /\ Eager.output_onehot[Train][i][e2 + 1] = 0

\* C16: in every reachable state the adapter built with low_memory=True has
\* no entry in its one-hot cache and none in its filter-tag table.
C16_LowMemoryCachesNothing ==
    /\ DOMAIN LowMemory.output_onehot = {}
    /\ DOMAIN LowMemory.filtered_status = {}

\* C16 witness: generate_onehot_outputs has succeeded on both adapters (the
\* eager one holds the cache it built) and the low-memory generator has
\* yielded a batch with its one-hot rows.
C16_Witness ==
    /\ LowMemory.low_memory
    /\ Train \in DOMAIN Eager.output_onehot
    /\ Len(LowMemory.dataset[Train]) = MaxLen
    /\ gen[TRUE].state = "running"
    /\ Len(gen[TRUE].out[2]) >= 1

\* set_output_mapping was called since the suspended generator of adapter lm
\* entered its loop: the low-memory frame holds another mapping than the
\* adapter, the eager adapter has lost the cache the loop reads.
MappingReplacedWhileSuspended(lm) ==
    /\ gen[lm].state = "running"
    /\ ~gen[lm].use_filter
    /\ IF lm THEN gen[lm].output_dict # adapter[lm].output_mapping
             ELSE gen[lm].dataset_type \notin DOMAIN adapter[lm].output_onehot

\* C17: in both memory modes, a pull of a get_next_batch(use_filter=False)
\* generator that was suspended when set_output_mapping(m) was called either
\* yields nothing or yields rows that are the encoding of their triples
\* under m.
C17_NoStaleRows ==
    [][ \A lm \in BOOLEAN :
          ( /\ MappingReplacedWhileSuspended(lm)
            /\ NextBatch
            /\ gen'[lm].state = "running" )
          => EncodedUnder(gen'[lm].out, adapter[lm].output_mapping[1], Width(adapter[lm]))
      ]_vars

\* C18: when set_data overwrites a dataset of the eager adapter whose cached
\* one-hot matrix is the encoding of the old triples under the mapping
\* use_filter selects and carries the tag use_filter, every pair a
\* get_next_batch(train, use_filter) issued next yields has as many one-hot
\* rows as triples, each the encoding of its triple of the new dataset.
C18_OverwriteRefreshesCache ==
    [][ \A a \in ValidArrays, m \in BOOLEAN, u \in BOOLEAN :
          ( /\ gen' = gen
            /\ Train \in DOMAIN Eager.output_onehot
            /\ Eager.filtered_status[Train] = u
            /\ Selected(Eager, u) # None
            /\ SetData(a, Train, m)
            /\ Eager.output_onehot[Train] =
                  OnehotRows(Eager.dataset[Train], Selected(Eager, u)[1], Width(Eager)) )
          => \A k \in BatchCounts :
                \A r \in {FullRun(adapter'[FALSE], k, Train, u)} :
                    \A j \in 1 .. Len(r.yielded) :
                       /\ Len(r.yielded[j][2]) = Len(r.yielded[j][1])
                       /\ EncodedUnder(r.yielded[j], Selected(Eager, u)[1], Width(Eager))
      ]_vars

\* More pulls than any iteration with chunks of 1 entity or more yields.
MaxPulls == NumRels * NumEnts + 1

\* list(self.get_next_batch_subject_corruptions(batch_size, train, use_filter)),
\* given up after MaxPulls pulls.
ScRun(self, batch_size, use_filter) ==
    ScDrain(self, get_next_batch_subject_corruptions(batch_size, Train, use_filter),
            << >>, MaxPulls)

\* The synthetic triples pairing these entities with the relation.
Synthetic(ents, rel) == [j \in 1 .. Len(ents) |-> <<ents[j], rel, 0>>]

\* The generator can run: its dataset is registered and the mapping
\* use_filter selects has been set.
Configured(self, use_filter) ==
    Registered(self, Train) /\ Selected(self, use_filter) # None

\* C14: with batch_size unspecified (-1), on a registered dataset of 1
\* triple or more (fewer than the entities, or not) and with the selected
\* mapping set, the generator runs to its end and yields exactly one chunk
\* per relation, in relation order, whose synthetic triples pair the whole
\* entity vocabulary with that relation.
C14_UnspecifiedIsOneChunk ==
    \A lm \in BOOLEAN, u \in BOOLEAN :
       (Configured(adapter[lm], u) /\ Len(adapter[lm].dataset[Train]) >= 1) =>
          \A r \in {ScRun(adapter[lm], -1, u)} :
             /\ r.gen.state = "done"
             /\ Len(r.yielded) = NumRels
             /\ \A p \in 1 .. NumRels :
                   r.yielded[p][2] =
                      Synthetic(DictValues(adapter[lm].ent_to_idx),
                                DictValues(adapter[lm].rel_to_idx)[p])

\* What C15 says of a full iteration with batch_size b >= 1.
ChunksEnumerateVocabulary(self, b, u) ==
    \A r \in {ScRun(self, b, u)}, n \in {CeilDiv(NumEnts, b)} :
       /\ r.gen.state = "done"
       /\ Len(r.yielded) = NumRels * n
       /\ \A p \in 1 .. NumRels, c \in 1 .. n :
             \A chunk \in {r.yielded[(p - 1) * n + c]} :
                /\ Len(chunk[2]) = IF c < n THEN b ELSE NumEnts - (n - 1) * b
                /\ \A j \in 1 .. Len(chunk[2]) :
                      chunk[2][j] = << DictValues(self.ent_to_idx)[(c - 1) * b + j],
                                       DictValues(self.rel_to_idx)[p], 0 >>
                /\ Len(chunk[3]) = Len(chunk[2])
                /\ \A j \in 1 .. Len(chunk[3]) : Len(chunk[3][j]) = NumEnts

CursorAdvanced(g1, g2) ==
    \/ g2.rel_pos > g1.rel_pos
    \/ g2.rel_pos = g1.rel_pos /\ g2.ent_idx > g1.ent_idx

\* C19: for every registered dataset and every batch_size (-1 or >= 1) a
\* subject-corruption generator is exhausted, or ended by an exception,
\* within MaxPulls pulls, and every pull of a generator that yields leaves
\* its cursor (relation, entity index) beyond where it was.
C19_Finite ==
    \A lm \in BOOLEAN :
       /\ \A b \in ChunkSizes, u \in BOOLEAN :
             Registered(adapter[lm], Train) =>
                ScRun(adapter[lm], b, u).gen.state \in {"done", "raised"}
       /\ Active(gen[lm]) =>
             \A r \in {next_chunk(adapter[lm], gen[lm])} :
                r.gen.state = "running" => CursorAdvanced(gen[lm], r.gen)

====
